---- MODULE Spec2Model ----
(***************************************************************************)
(* Job lifecycle of browserbase-lambda-playwright.                         *)
(*                                                                         *)
(*   lambdas/scraper/scraper.py   the job executor (lambda_handler,        *)
(*                                scrape_page, update_job_status)          *)
(*   lambdas/getter/getter.py     the status query (lambda_handler)        *)
(*   examples/quick_start.py      the polling client (submit_job,          *)
(*                                get_job_status, main)                    *)
(*                                                                         *)
(* The DynamoDB table, the Browserbase provider, Playwright and the HTTP   *)
(* transport are the environment: each call to them either succeeds or     *)
(* raises, chosen by the environment.  Every Lambda invocation is a        *)
(* process of its own, so executor runs interleave with each other and     *)
(* with queries at the points where they touch the table.                  *)
(***************************************************************************)
EXTENDS Naturals, Sequences, FiniteSets, TLC

VARIABLES
    scraper_loaded, \* whether the scraper Lambda could import scraper.py
    store,      \* the DynamoDB table: jobId -> item (a dict), for the stored keys
    run,        \* one entry per invocation of the scraper Lambda: its locals
    lastQuery,  \* the last invocation of the getter Lambda and its response
    client      \* quick_start.main: its locals and what it printed

vars == <<scraper_loaded, store, run, lastQuery, client>>

-----------------------------------------------------------------------------
(* Bounds of the model *)

MaxRuns == 2            \* invocations of the scraper Lambda
Runs == 1..MaxRuns

JobIds == {"a"}         \* jobId values callers send
Urls == {"u1"}          \* url values callers send
ErrDetails == {"", "boom"}       \* str(e) of a raised exception
PageTitles == {"Hacker News"}    \* await page.title()
ContentLengths == {7}            \* len(await page.content())

-----------------------------------------------------------------------------
(* Python values *)

None == "<None>"
EmptyDict == [k \in {} |-> None]

\* dict.get(key, default)
Get(d, k, default) == IF k \in DOMAIN d THEN d[k] ELSE default

\* d1.update(d2), as a new dict
Update(d1, d2) ==
    [k \in DOMAIN d1 \cup DOMAIN d2 |-> IF k \in DOMAIN d2 THEN d2[k] ELSE d1[k]]

\* str(uuid.uuid4()): a value no caller sends and no other invocation draws
Uuid4(r) == "uuid" \o ToString(r)

\* datetime.now(timezone.utc).isoformat(): the k-th reading of the clock by
\* invocation r.  The string is opaque to the program: it is stored, never
\* compared or parsed.
Now(r, k) == <<r, k>>

DEFAULT_TARGET_URL == "https://news.ycombinator.com/"

-----------------------------------------------------------------------------
(* The status store *)

\* infra/stack.py (line 34) declares the table with the partition key "id",
\* while both handlers key their items by "jobId".  A table of that schema
\* rejects every put_item and every get_item of the handlers; a table keyed
\* by "jobId" accepts them.  Which one JOB_STATUS_TABLE_NAME names is the
\* environment's: every call of the table below may succeed or fail.

\* put_item as a merge of the attributes into the stored item
PutItem_Merge(table, item) ==
    [k \in DOMAIN table \cup {item.jobId} |->
        IF k = item.jobId
        THEN IF k \in DOMAIN table THEN Update(table[k], item) ELSE item
        ELSE table[k]]

\* job_table.put_item(Item=item): an upsert of the whole item under its jobId
PutItem(table, item) ==
    [k \in DOMAIN table \cup {item.jobId} |->
        IF k = item.jobId THEN item ELSE table[k]]

\* The item update_job_status builds (scraper.py lines 60-69)
JobItem(job_id, status, result_data, error_message, timestamp) ==
    LET item0 == [jobId |-> job_id, status |-> status, lastUpdatedAt |-> timestamp]
        item1 == IF result_data # EmptyDict THEN Update(item0, result_data) ELSE item0
    IN  IF error_message # None /\ error_message # ""
        THEN Update(item1, [errorMessage |-> error_message])
        ELSE item1

\* update_job_status with a put_item that reports success and stores nothing
update_job_status_Dropped(table, job_id, status, result_data, error_message, timestamp, put_ok) ==
    table

\* update_job_status with a failed put_item that takes the record away
update_job_status_ErasesOnFailure(table, job_id, status, result_data, error_message, timestamp, put_ok) ==
    IF put_ok
    THEN PutItem(table, JobItem(job_id, status, result_data, error_message, timestamp))
    ELSE [k \in DOMAIN table \ {job_id} |-> table[k]]

\* update_job_status: the table after the call.  put_ok is whether put_item
\* succeeded; a ClientError or any other exception is logged and swallowed.
update_job_status(table, job_id, status, result_data, error_message, timestamp, put_ok) ==
    IF put_ok
    THEN PutItem(table, JobItem(job_id, status, result_data, error_message, timestamp))
    ELSE table

-----------------------------------------------------------------------------
(* The job executor: scraper.lambda_handler and scrape_page *)

\* The bodies an event can carry: event.get('body') and what json.loads makes of it
Payloads ==
    {[jobId |-> j, url |-> u] : j \in JobIds, u \in Urls}
        \cup {[jobId |-> j] : j \in JobIds}
        \cup {[url |-> u] : u \in Urls}
        \cup {EmptyDict}

Events ==
    {[body |-> "absent"], [body |-> "empty"], [body |-> "invalid"], [body |-> "array"]}
        \cup {[body |-> "object", payload |-> p] : p \in Payloads}

\* The request model of POST /scrape (infra/stack.py lines 114-134): a JSON
\* object with the strings jobId and url.  The handlers hold no such check.
ScrapeRequestModel(event) ==
    /\ event.body = "object"
    /\ {"jobId", "url"} \subseteq DOMAIN event.payload

\* What the three except clauses of scrape_page make of an exception
\* (scraper.py lines 177-185).  Playwright's TimeoutError derives from
\* playwright's Error, not from the builtin TimeoutError named on line 180.
\* The kinds raised below: ValueError, BrowserbaseError, the builtin
\* TimeoutError, playwright's TimeoutError, and any other Exception.
ErrorInfo(kind, e) ==
    CASE kind = "BrowserbaseError" -> "Browserbase API error: " \o e
      [] kind = "TimeoutError"     -> "Playwright timeout error: " \o e
      [] OTHER                     -> "An unexpected error occurred: " \o e

\* The initial value of final_status (scraper.py line 130)
InitialFinalStatus == "failed"

IdleRun ==
    [pc |-> "idle", event |-> EmptyDict, job_id |-> None, target_url |-> None, initial_data |-> EmptyDict,
     session_id |-> None, exc |-> None, error_info |-> None, final_status |-> None,
     results |-> EmptyDict, playwright |-> "none", browser |-> "none",
     \* the calls of update_job_status so far, by the status given, and
     \* whether the put_item of the last one succeeded
     writes |-> <<>>, put_ok |-> TRUE,
     result |-> EmptyDict, ret |-> EmptyDict]

\* The locals of scrape_page are gone once it has returned or raised; what is
\* left of an invocation is its return values and the connections it opened.
Ended(l, pc, result, ret) ==
    [IdleRun EXCEPT !.pc = pc, !.playwright = l.playwright, !.browser = l.browser,
                    !.session_id = l.session_id, !.result = result, !.ret = ret]

\* Invocations start in the order of their index
MayStart(r) ==
    /\ run[r].pc = "idle"
    /\ IF r = 1 THEN TRUE ELSE run[r - 1].pc # "idle"

\* An invocation when the module did not load: the signature of
\* update_job_status (line 54) names Dict and Any, which line 11 does not
\* import.  A Python that evaluates annotations at the def raises NameError
\* there, and the Lambda fails every invocation before the handler runs.
InvokeImportError(r) ==
    /\ MayStart(r)
    /\ ~scraper_loaded
    /\ run' = [run EXCEPT ![r] = Ended(IdleRun, "import_error", EmptyDict, EmptyDict)]
    /\ UNCHANGED <<scraper_loaded, store, lastQuery, client>>

\* lambda_handler with a body that is missing, empty or not JSON (lines 212-221)
Reject(r, event) ==
    run' = [run EXCEPT ![r] =
        [@ EXCEPT !.pc = "returned", !.event = event,
                  !.ret = [status |-> "error",
                           message |-> IF event.body = "invalid"
                                       THEN "Invalid JSON body"
                                       ELSE "Missing request body"]]]

InvokeRejected(r) ==
    /\ MayStart(r)
    /\ scraper_loaded
    /\ \E event \in Events :
          /\ event.body \in {"absent", "empty", "invalid"}
          /\ Reject(r, event)
    /\ UNCHANGED <<scraper_loaded, store, lastQuery, client>>

\* lambda_handler with a body that is JSON but no object: payload.get (line
\* 117) raises AttributeError outside the try of scrape_page, and the
\* exception leaves lambda_handler before anything is written
InvokeBadPayload(r) ==
    /\ MayStart(r)
    /\ scraper_loaded
    /\ \E event \in Events :
          /\ event.body = "array"
          /\ run' = [run EXCEPT ![r] =
                [Ended(IdleRun, "crashed", EmptyDict, EmptyDict) EXCEPT !.event = event]]
    /\ UNCHANGED <<scraper_loaded, store, lastQuery, client>>

\* lambda_handler with a body that parses, up to the PENDING write of
\* scrape_page (lines 212-223 and 116-131)
Accept(r, event, put_ok) ==
    LET payload == event.payload
        job_id == Get(payload, "jobId", Uuid4(r))
        target_url == Get(payload, "url", DEFAULT_TARGET_URL)
        initial_data == [requestedUrl |-> target_url, receivedAt |-> Now(r, 0)]
    IN  /\ store' = update_job_status(store, job_id, "PENDING", initial_data,
                                      None, Now(r, 1), put_ok)
        /\ run' = [run EXCEPT ![r] =
               [@ EXCEPT !.pc = "session", !.event = event, !.job_id = job_id,
                         !.target_url = target_url,
                         !.initial_data = initial_data,
                         !.writes = <<"PENDING">>, !.put_ok = put_ok,
                         !.final_status = InitialFinalStatus]]

InvokeAccepted(r) ==
    /\ MayStart(r)
    /\ scraper_loaded
    /\ \E event \in Events, put_ok \in BOOLEAN :
          event.body = "object" /\ Accept(r, event, put_ok)
    /\ UNCHANGED <<scraper_loaded, lastQuery, client>>

\* create_browserbase_session (scraper.py lines 81-109).  env says which of
\* the two ARN variables are set, which secrets get_secret_value returned,
\* and what bb.sessions.create did ("ok", or the str(e) of a BrowserbaseError).
SessionEnvs ==
    [project_arn : BOOLEAN, key_arn : BOOLEAN, api_key : BOOLEAN,
     project_id : BOOLEAN, create : {"ok"} \cup {"raise:" \o e : e \in ErrDetails}]

Raise(kind, e) == [ok |-> FALSE, kind |-> kind, e |-> e]

\* session.id of the session bb.sessions.create made for invocation r
SessionId(r) == "sess" \o ToString(r)

create_browserbase_session(r, env) ==
    IF ~env.project_arn
    THEN Raise("ValueError", "BROWSERBASE_PROJECT_ID_ARN not set.")
    ELSE IF ~env.key_arn
    THEN Raise("ValueError", "BROWSERBASE_API_KEY_SECRET_ARN not set.")
    ELSE IF ~env.api_key \/ ~env.project_id
    THEN Raise("ValueError", "Failed to retrieve Browserbase credentials from Secrets Manager.")
    ELSE IF env.create # "ok"
    THEN Raise("BrowserbaseError", SubSeq(env.create, 7, Len(env.create)))
    ELSE [ok |-> TRUE, id |-> SessionId(r)]

\* An exception that leaves the try for the cleanup, past the terminal write
Caught_SkipsFinalWrite(l, kind, e) ==
    [l EXCEPT !.pc = "cleanup", !.exc = kind, !.error_info = ErrorInfo(kind, e)]

\* An exception caught by the try of scrape_page: error_info is set, the
\* finally clause is next (lines 177-186)
Caught(l, kind, e) ==
    [l EXCEPT !.pc = "final", !.exc = kind, !.error_info = ErrorInfo(kind, e)]

\* Step 1 of scrape_page: the session and the RUNNING write (lines 133-142)
CreateSession(r) ==
    /\ run[r].pc = "session"
    /\ \E env \in SessionEnvs, put_ok \in BOOLEAN :
          LET session == create_browserbase_session(r, env)
              initial_data == Update(run[r].initial_data, [sessionId |-> session.id])
          IN  IF session.ok
              THEN /\ store' = update_job_status(store, run[r].job_id, "RUNNING",
                                                 initial_data, None, Now(r, 2), put_ok)
                   /\ run' = [run EXCEPT ![r] =
                          [@ EXCEPT !.pc = "connect", !.session_id = session.id,
                                    !.writes = Append(@, "RUNNING"), !.put_ok = put_ok,
                                    !.initial_data = initial_data]]
              ELSE /\ run' = [run EXCEPT ![r] = Caught(@, session.kind, session.e)]
                   /\ UNCHANGED store
    /\ UNCHANGED <<scraper_loaded, lastQuery, client>>

\* Step 2: start Playwright and connect over CDP (lines 144-148)
Connect(r) ==
    /\ run[r].pc = "connect"
    /\ \/ \E e \in ErrDetails :      \* async_playwright().start() raises
             run' = [run EXCEPT ![r] = Caught(@, "Exception", e)]
       \/ \E kind \in {"PlaywrightTimeoutError", "TimeoutError", "Exception"},
             e \in ErrDetails :      \* connect_over_cdp raises
             run' = [run EXCEPT ![r] =
                        Caught([@ EXCEPT !.playwright = "started"], kind, e)]
       \/ run' = [run EXCEPT ![r] =
                     [@ EXCEPT !.pc = "navigate", !.playwright = "started",
                               !.browser = "connected"]]
    /\ UNCHANGED <<scraper_loaded, store, lastQuery, client>>

\* Step 3: find a page, navigate, extract (lines 150-175).  connected is what
\* browser.is_connected() will answer in the finally clause.
Navigate(r) ==
    /\ run[r].pc = "navigate"
    /\ \E connected \in {"connected", "disconnected"} :
          \/ run' = [run EXCEPT ![r] =    \* not browser.contexts
                        Caught([@ EXCEPT !.browser = connected], "Exception",
                               "No browser contexts found.")]
          \/ \E kind \in {"PlaywrightTimeoutError", "TimeoutError", "Exception"},
                e \in ErrDetails :        \* new_page, goto, title or content raises
                run' = [run EXCEPT ![r] =
                           Caught([@ EXCEPT !.browser = connected], kind, e)]
          \/ \E page_title \in PageTitles, content_length \in ContentLengths :
                run' = [run EXCEPT ![r] =
                           [@ EXCEPT !.pc = "final", !.browser = connected,
                                     !.results = [pageTitle |-> page_title,
                                                  contentLength |-> content_length],
                                     !.final_status = "SUCCESS"]]
    /\ UNCHANGED <<scraper_loaded, store, lastQuery, client>>

\* The terminal write with the results alone as its data
FinalWrite_ResultsOnly(r) ==
    /\ run[r].pc = "final"
    /\ \E put_ok \in BOOLEAN :
          /\ store' = update_job_status(store, run[r].job_id, run[r].final_status,
                                        run[r].results, run[r].error_info, Now(r, 3), put_ok)
          /\ run' = [run EXCEPT ![r] =
                 [@ EXCEPT !.pc = "cleanup",
                           !.writes = Append(@, run[r].final_status),
                           !.put_ok = put_ok]]
    /\ UNCHANGED <<scraper_loaded, lastQuery, client>>

\* Step 4, in the finally clause: the terminal write (lines 187-190)
FinalWrite(r) ==
    /\ run[r].pc = "final"
    /\ \E put_ok \in BOOLEAN :
          LET final_data == Update(run[r].initial_data, run[r].results)
          IN  /\ store' = update_job_status(store, run[r].job_id, run[r].final_status,
                                            final_data, run[r].error_info, Now(r, 3), put_ok)
              /\ run' = [run EXCEPT ![r] =
                     [@ EXCEPT !.pc = "cleanup",
                               !.writes = Append(@, run[r].final_status),
                           !.put_ok = put_ok]]
    /\ UNCHANGED <<scraper_loaded, lastQuery, client>>

\* Step 5, in the finally clause: cleanup, then the two returns (lines 192-202
\* and 223-227).  An exception of close() or stop() leaves the finally clause,
\* scrape_page and lambda_handler.
Cleanup(r) ==
    /\ run[r].pc = "cleanup"
    /\ \E close_raises \in BOOLEAN, stop_raises \in BOOLEAN :
          LET l == run[r]
              closing == l.browser = "connected"
              stopping == l.playwright = "started"
          IN  IF closing /\ close_raises
              THEN run' = [run EXCEPT ![r] = Ended(l, "crashed", EmptyDict, EmptyDict)]
              ELSE IF stopping /\ stop_raises
              THEN run' = [run EXCEPT ![r] =
                              Ended([l EXCEPT !.browser = IF closing THEN "closed" ELSE @],
                                    "crashed", EmptyDict, EmptyDict)]
              ELSE run' = [run EXCEPT ![r] =
                              Ended([l EXCEPT !.browser = IF closing THEN "closed" ELSE @,
                                              !.playwright = IF stopping THEN "stopped" ELSE @],
                                    "returned",
                                    [jobId |-> l.job_id, finalStatus |-> l.final_status],
                                    [status |-> "accepted", jobId |-> l.job_id])]
    /\ UNCHANGED <<scraper_loaded, store, lastQuery, client>>

\* The Lambda service stops an invocation that is still running at the
\* function's timeout (infra/stack.py line 67: 15 minutes).  scrape_page can be
\* held that long where it waits with no bound of its own: sessions.create and
\* get_secret_value (lines 90-104), async_playwright().start() (line 146),
\* new_page, title and content (lines 156-167), browser.close() and
\* playwright.stop() (lines 195-198).  Whatever
\* the run had not done by then is not done, and there is no return value.
\* The stop falls at the start of the phase the run is in, or, progressed,
\* inside it: with the session made and the RUNNING write not back, with
\* Playwright started and connect_over_cdp not back, with the connection lost
\* and the page not back, with close() done and stop() not back.
LambdaTimeout(r) ==
    /\ run[r].pc \in {"session", "connect", "navigate", "final", "cleanup"}
    /\ \E progressed \in BOOLEAN :
          LET l == run[r]
              cut == CASE progressed /\ l.pc = "session" ->
                             [l EXCEPT !.session_id = SessionId(r)]
                       [] progressed /\ l.pc = "connect" ->
                             [l EXCEPT !.playwright = "started"]
                       [] progressed /\ l.pc = "navigate" ->
                             [l EXCEPT !.browser = "disconnected"]
                       [] progressed /\ l.pc = "cleanup" /\ l.browser = "connected" ->
                             [l EXCEPT !.browser = "closed"]
                       [] OTHER -> l
          IN  run' = [run EXCEPT ![r] = Ended(cut, "timed_out", EmptyDict, EmptyDict)]
    /\ UNCHANGED <<scraper_loaded, store, lastQuery, client>>

-----------------------------------------------------------------------------
(* The status query: getter.lambda_handler *)

\* The attributes DynamoDB holds as numbers: boto3 hands them back as Decimal
NumericKeys == {"contentLength"}

\* A Decimal: digits * 10^exponent, or digits / 10^scale
Decimal(digits, exponent, scale) == [digits |-> digits, exponent |-> exponent, scale |-> scale]

\* What get_item returns for a stored item: every number as a Decimal
Deserialize(item) ==
    [k \in DOMAIN item |->
        IF k \in NumericKeys THEN Decimal(item[k], 0, 0) ELSE item[k]]

\* DecimalEncoder.default (getter.py lines 15-22): int(o) when o % 1 == 0,
\* float(o) otherwise
DecimalDefault(o) ==
    IF o.scale = 0 \/ o.digits % (10 ^ o.scale) = 0
    THEN (o.digits * (10 ^ o.exponent)) \div (10 ^ o.scale)
    ELSE <<"float", o.digits, o.scale>>

\* json.dumps(item, cls=DecimalEncoder), as the JSON object it encodes
JsonDumps(item) ==
    [k \in DOMAIN item |->
        IF k \in NumericKeys THEN DecimalDefault(item[k]) ELSE item[k]]

\* What job_table.get_item did: it answered, or raised a ClientError, or
\* raised something else
ReadOutcomes == {"ok", "ClientError", "Exception"}

\* The handler with a missing item taken for a failure
GetterHandler_MissingIs500(table, job_id, read) ==
    IF read = "ok" /\ job_id \in DOMAIN table
    THEN [statusCode |-> 200, body |-> JsonDumps(Deserialize(table[job_id]))]
    ELSE [statusCode |-> 500, body |-> [error |-> "An internal server error occurred"]]

\* getter.lambda_handler (lines 24-60)
GetterHandler(table, job_id, read) ==
    IF read = "ClientError"
    THEN [statusCode |-> 500,
          body |-> [error |-> "Failed to retrieve job status due to database error"]]
    ELSE IF read # "ok"
    THEN [statusCode |-> 500, body |-> [error |-> "An internal server error occurred"]]
    ELSE IF job_id \in DOMAIN table
    THEN [statusCode |-> 200, body |-> JsonDumps(Deserialize(table[job_id]))]
    ELSE [statusCode |-> 404, body |-> [error |-> "Job not found"]]

\* The job ids a caller may ask for: sent ones, generated ones, and one that
\* was never submitted
QueryIds == JobIds \cup {Uuid4(r) : r \in Runs} \cup {"never"}

\* A query that stamps the record it has read
Query_StampsRecord ==
    /\ \E job_id \in QueryIds, read \in ReadOutcomes :
          /\ lastQuery' = [jobId |-> job_id, read |-> read,
                           response |-> GetterHandler(store, job_id, read)]
          /\ store' = IF job_id \in DOMAIN store
                       THEN [store EXCEPT ![job_id] = Update(@, [lastReadAt |-> "now"])]
                       ELSE store
    /\ UNCHANGED <<scraper_loaded, run, client>>

\* getter.lambda_handler invoked for a job id, and its answer
Query ==
    /\ \E job_id \in QueryIds, read \in ReadOutcomes :
          lastQuery' = [jobId |-> job_id, read |-> read,
                        response |-> GetterHandler(store, job_id, read)]
    /\ UNCHANGED <<scraper_loaded, store, run, client>>

-----------------------------------------------------------------------------
(* The polling client: examples/quick_start.py *)

MAX_POLL_ATTEMPTS == 50

\* A value that is None where the program holds a dict or None
NoneDict == [none |-> None]

\* A JSON value that is no object, as response.json() returns it: a list, a
\* string, a number, true, false or null, and its Python truth
NonObject(type, truth) == [nonobject |-> type, truth |-> truth]
IsNonObject(d) == "nonobject" \in DOMAIN d

\* Python truth of what get_job_status returns: None and {} are false, and so
\* are [], "", 0, false and null
Truthy(d) ==
    /\ d # NoneDict
    /\ d # EmptyDict
    /\ IsNonObject(d) => d.truth

\* str(uuid.uuid4()) of main (line 101)
ClientJobId == Uuid4(0)

\* What requests.get produces: an HTTP response, or an exception
HttpResponse(code, body) == [kind |-> "http", code |-> code, json |-> TRUE, body |-> body]
Undecodable(code) == [kind |-> "http", code |-> code, json |-> FALSE, body |-> EmptyDict]
TimedOut == [kind |-> "timeout"]
NetworkError == [kind |-> "network"]

CheckingError(e) == [status |-> "ERROR_CHECKING", error |-> e]

\* get_job_status with every HTTP error, 404 included, reported as a checking error
get_job_status_404IsError(resp) ==
    CASE resp.kind = "timeout" -> NoneDict
      [] resp.kind = "network" -> CheckingError("network error")
      [] resp.kind = "http" /\ resp.code >= 400 ->
            CheckingError("HTTP error " \o ToString(resp.code))
      [] resp.kind = "http" /\ resp.code = 200 /\ resp.json -> resp.body
      [] resp.kind = "http" /\ resp.code = 200 /\ ~resp.json ->
            CheckingError("invalid JSON")
      [] OTHER -> NoneDict

\* get_job_status with every failure taken for "no status yet"
get_job_status_ErrorIsNone(resp) ==
    IF resp.kind = "http" /\ resp.code = 200 /\ resp.json THEN resp.body ELSE NoneDict

\* get_job_status (lines 54-86): the dict it returns, or None
get_job_status(resp) ==
    CASE resp.kind = "timeout" -> NoneDict
      [] resp.kind = "network" -> CheckingError("network error")
      [] resp.kind = "http" /\ resp.code = 404 -> NoneDict
      [] resp.kind = "http" /\ resp.code >= 400 /\ resp.code # 404 ->
            CheckingError("HTTP error " \o ToString(resp.code))
      [] resp.kind = "http" /\ resp.code = 200 /\ resp.json -> resp.body
      [] resp.kind = "http" /\ resp.code = 200 /\ ~resp.json ->
            CheckingError("invalid JSON")
      [] OTHER -> NoneDict

\* The list of line 121 without FAILED
StopStatuses_NoFailed == {"SUCCESS", "ERROR_CHECKING"}

\* The statuses that end the loop (line 121)
StopStatuses == {"SUCCESS", "FAILED", "ERROR_CHECKING"}

\* The report with an exhausted budget printed as a failure
FinalReport_ExhaustedIsFailure(final_result) ==
    IF Truthy(final_result) /\ Get(final_result, "status", None) = "SUCCESS"
    THEN "Job completed successfully."
    ELSE "Job failed."

\* What main prints under "--- Final Result ---" (lines 128-141)
FinalReport(final_result) ==
    IF Truthy(final_result)
    THEN LET final_status == Get(final_result, "status", None)
         IN  CASE final_status = "FAILED" -> "Job failed."
               [] final_status = "SUCCESS" -> "Job completed successfully."
               [] OTHER -> "Job polling finished with status: " \o final_status
    ELSE "did not reach a final state"

InitialClient ==
    [pc |-> "start", attempts |-> 0, result |-> NoneDict, final_result |-> NoneDict,
     report |-> None,
     \* what happened, for the record: the calls of get_job_status, the last
     \* thing requests.get produced, the statuses the attempts have shown
     queries |-> 0, response |-> EmptyDict, observed |-> {}]

\* while True
LoopCondition_Unbounded(attempts) == attempts >= 0

\* The loop condition (line 110)
LoopCondition(attempts) == attempts < MAX_POLL_ATTEMPTS

\* main up to the loop (lines 90-109): the configuration check and submit_job.
\* post is what the POST did: 202, another 2xx, an HTTP error or an exception.
PostOutcomes == {"202", "200", "http_error", "exception"}

ClientSubmit ==
    /\ client.pc = "start"
    /\ \E configured \in BOOLEAN, post \in PostOutcomes :
          client' =
              IF ~configured THEN [client EXCEPT !.pc = "exited"]
              ELSE IF post # "202" THEN [client EXCEPT !.pc = "not_submitted"]
              ELSE IF LoopCondition(0) THEN [client EXCEPT !.pc = "polling"]
              ELSE [client EXCEPT !.pc = "done", !.report = FinalReport(NoneDict)]
    /\ UNCHANGED <<scraper_loaded, store, run, lastQuery>>

\* One iteration of the while loop (lines 110-125), and, when it is the last
\* one, the report (lines 127-141).  The wait of POLL_INTERVAL_SECONDS before
\* every iteration but the first changes no state.  A result that is true
\* and no dict has no get: line 119 raises AttributeError, which leaves main
\* with nothing printed under "--- Final Result ---".
PollStep(c, resp) ==
    LET attempts == c.attempts + 1
        result == get_job_status(resp)
        raises == Truthy(result) /\ IsNonObject(result)
        status == IF Truthy(result) /\ ~raises
                  THEN Get(result, "status", "UNKNOWN") ELSE None
        break == Truthy(result) /\ ~raises /\ status \in StopStatuses
        final_result == IF break THEN result ELSE c.final_result
        leave == break \/ ~LoopCondition(attempts)
    IN  [c EXCEPT !.attempts = attempts,
                  !.queries = @ + 1,
                  !.response = resp,
                  !.observed = @ \cup {status},
                  !.result = result,
                  !.final_result = final_result,
                  !.pc = IF raises THEN "raised" ELSE IF leave THEN "done" ELSE "polling",
                  !.report = IF leave /\ ~raises THEN FinalReport(final_result) ELSE None]

\* The client against any server: every response requests.get can produce
PollStatuses ==
    {"PENDING", "RUNNING", "SUCCESS", "FAILED", "failed", "ERROR_CHECKING", "WEIRD"}

\* Bodies that are JSON and no object: [1], "SUCCESS", 7, [] and null
NonObjects ==
    {NonObject("list", TRUE), NonObject("string", TRUE), NonObject("number", TRUE),
     NonObject("list", FALSE), NonObject("null", FALSE)}

AnyResponses ==
    {TimedOut, NetworkError, Undecodable(200)}
        \cup {HttpResponse(200, [jobId |-> ClientJobId, status |-> st]) : st \in PollStatuses}
        \cup {HttpResponse(200, [jobId |-> ClientJobId]), HttpResponse(200, EmptyDict)}
        \cup {HttpResponse(200, body) : body \in NonObjects}
        \cup {HttpResponse(code, [error |-> "x"]) : code \in {204, 403, 404, 429, 500}}

PollAny ==
    /\ client.pc = "polling"
    /\ \E resp \in AnyResponses : client' = PollStep(client, resp)
    /\ UNCHANGED <<scraper_loaded, store, run, lastQuery>>

\* The client against this system: the request reaches the getter Lambda, or
\* times out, or fails in the network, or is throttled by the usage plan, or
\* is answered by something that sends 200 with a body that is not JSON
Transports == {"delivered", "timeout", "network", "throttled", "garbled"}

Wire(transport, getter_response) ==
    CASE transport = "delivered" ->
            HttpResponse(getter_response.statusCode, getter_response.body)
      [] transport = "timeout" -> TimedOut
      [] transport = "network" -> NetworkError
      [] transport = "garbled" -> Undecodable(200)
      [] OTHER -> HttpResponse(429, [message |-> "Too Many Requests"])

Poll ==
    /\ client.pc = "polling"
    /\ \E transport \in Transports, read \in ReadOutcomes :
          client' = PollStep(client,
                             Wire(transport, GetterHandler(store, ClientJobId, read)))
    /\ UNCHANGED <<scraper_loaded, store, run, lastQuery>>

\* The event POST /scrape makes of the client's request as infra/stack.py
\* integrates it (lines 92-98: proxy=False, no request template): the request
\* body itself, {"jobId": .., "url": ..}, an event with no 'body' key
StackEvent == [body |-> "absent"]

\* The client has sent its POST.  Whatever answer reached it (202 or not, or
\* none), the gateway may have taken the request and queued the invocation.
Posted == client.pc \notin {"start", "exited"}

\* The asynchronous invocation of the client's POST when scraper.py did not load
ClientInvokeFails ==
    /\ Posted
    /\ InvokeImportError(1)

\* The same invocation when it did: event.get('body') is None, and the
\* handler returns 'Missing request body' with nothing written (scraper.py
\* lines 212-215)
ClientInvokeRejected ==
    /\ Posted
    /\ run[1].pc = "idle"
    /\ scraper_loaded
    /\ Reject(1, StackEvent)
    /\ UNCHANGED <<scraper_loaded, store, lastQuery, client>>

-----------------------------------------------------------------------------
(* Specifications *)

Executor(r) ==
    \/ CreateSession(r)
    \/ Connect(r)
    \/ Navigate(r)
    \/ FinalWrite(r)
    \/ Cleanup(r)
    \/ LambdaTimeout(r)

\* Any sequence of invocations of the scraper Lambda, running concurrently
Next ==
    \E r \in Runs :
        \/ InvokeImportError(r)
        \/ InvokeRejected(r)
        \/ InvokeBadPayload(r)
        \/ InvokeAccepted(r)
        \/ Executor(r)

\* One invocation, and status queries at any time
NextQuery ==
    \/ InvokeImportError(1)
    \/ InvokeRejected(1)
    \/ InvokeBadPayload(1)
    \/ InvokeAccepted(1)
    \/ Executor(1)
    \/ Query

\* quick_start.main end to end, against the stack of infra/stack.py: its
\* submission, the invocation the submission starts, and its polling
NextE2E ==
    \/ ClientSubmit
    \/ ClientInvokeFails
    \/ ClientInvokeRejected
    \/ Poll

\* quick_start.main against any server
NextClient ==
    \/ ClientSubmit
    \/ PollAny

Init ==
    /\ scraper_loaded \in BOOLEAN
    /\ store = EmptyDict
    /\ run = [r \in Runs |-> IdleRun]
    /\ lastQuery = EmptyDict
    /\ client = InitialClient

Spec == Init /\ [][Next]_vars
SpecQuery == Init /\ [][NextQuery]_vars
SpecE2E == Init /\ [][NextE2E]_vars
SpecClient == Init /\ [][NextClient]_vars

\* One invocation and queries, where an invocation that can take a step
\* eventually takes one: the Lambda service runs what it has started
SpecLive == Init /\ [][NextQuery]_vars /\ WF_vars(Executor(1))

-----------------------------------------------------------------------------
(* Properties *)

\* The stored item of job j has been written by a terminal write that
\* carried an error message
FailureRecorded(j) == j \in DOMAIN store /\ "errorMessage" \in DOMAIN store[j]

\* The step is one call of get_job_status by the client
ClientQueried == client'.queries = client.queries + 1

\* C1: the status of a stored record never moves backwards: SUCCESS or FAILED
\* is never followed by PENDING or RUNNING, RUNNING never by PENDING.
C1_StatusNeverRegresses ==
    [][\A j \in DOMAIN store :
          LET before == store[j].status
              after == store'[j].status
          IN  /\ before \in {"SUCCESS", "FAILED"} => after \notin {"PENDING", "RUNNING"}
              /\ before = "RUNNING" => after # "PENDING"]_vars

\* C2: once a stored record holds a terminal status, no later write changes
\* the record.
C2_TerminalRecordFrozen ==
    [][\A j \in DOMAIN store :
          store[j].status \in {"SUCCESS", "FAILED"} => store'[j] = store[j]]_vars

\* quick_start.main in its loop, before its first query
PollingClient == [InitialClient EXCEPT !.pc = "polling"]

\* C3: when the executor has written its terminal record of a failed job, a
\* client that then polls for that job with attempts left, and gets the
\* record from the query service, stops polling and reports the job as
\* failed, with the error message.
C3_FailureSurfacedToClient ==
    \A j \in DOMAIN store :
        FailureRecorded(j) =>
            LET response == Wire("delivered", GetterHandler(store, j, "ok"))
                c == PollStep(PollingClient, response)
            IN  /\ c.pc = "done"
                /\ c.report = "Job failed."
                /\ "errorMessage" \in DOMAIN c.final_result

\* C4: the status of every stored record is one of PENDING, RUNNING, SUCCESS,
\* FAILED.
C4_StatusInDomain ==
    \A j \in DOMAIN store : store[j].status \in {"PENDING", "RUNNING", "SUCCESS", "FAILED"}

\* C5: every run of scrape_page in which a step raised leaves, by its
\* terminal write, a record of status FAILED with a non-empty errorMessage
\* (stated for the runs whose terminal put_item the table accepted, so that
\* no failure of the table is needed to decide it).
C5_FailureLeavesFailedRecord ==
    [][\A r \in Runs :
          (/\ run[r].pc = "final" /\ run'[r].pc = "cleanup" /\ run[r].exc # None
           /\ store' # store)
          => LET j == run[r].job_id
             IN  /\ j \in DOMAIN store'
                 /\ store'[j].status = "FAILED"
                 /\ "errorMessage" \in DOMAIN store'[j]
                 /\ store'[j].errorMessage # ""]_vars

\* The result of an attempt carries one of the three statuses that stop the loop
CarriesStop(result) ==
    /\ result # NoneDict
    /\ "status" \in DOMAIN result
    /\ result.status \in {"SUCCESS", "FAILED", "ERROR_CHECKING"}

\* C6: the loop stops at the first attempt whose result carries SUCCESS,
\* FAILED or ERROR_CHECKING and keeps it as the final result; no query
\* follows; a record with any other status or with none, and no record at
\* all, leave the loop running while attempts remain, and no such result is
\* ever kept as the final one.
C6_StopsAtFirstTerminal ==
    [][/\ ClientQueried =>
            /\ client.pc = "polling"
            /\ CarriesStop(client'.result) =>
                  client'.pc = "done" /\ client'.final_result = client'.result
            /\ ~CarriesStop(client'.result) => client'.final_result = NoneDict
            /\ (/\ ~CarriesStop(client'.result)
                /\ "nonobject" \notin DOMAIN client'.result
                /\ client'.attempts < 50) =>
                  client'.pc = "polling"
       /\ client.pc \in {"done", "raised"} => client'.queries = client.queries]_vars

C6_Witness ==
    /\ client.pc = "done"
    /\ client.attempts \in 2..49
    /\ "PENDING" \in client.observed
    /\ client.final_result # NoneDict
    /\ client.final_result.status = "FAILED"

\* C7: after a 404 or a timed-out request the client has no final result,
\* does not report a failure and, while attempts remain, goes on polling.
C7_NotFoundKeepsPolling ==
    [][(/\ ClientQueried
        /\ \/ client'.response.kind = "timeout"
           \/ client'.response.kind = "http" /\ client'.response.code = 404)
       => (/\ client'.final_result = NoneDict
           /\ client'.report # "Job failed."
           /\ client'.attempts < 50 => client'.pc = "polling")]_vars

C7_Witness ==
    /\ client.pc = "polling"
    /\ client.attempts >= 2
    /\ client.response.kind = "http"
    /\ client.response.code = 404
    /\ client.final_result = NoneDict

\* C8: a client whose attempts never showed SUCCESS, FAILED or
\* ERROR_CHECKING never reports a failure or a success, and when it comes to
\* its report, the report is "did not reach a final state".
C8_ExhaustionIsNotFailure ==
    client.observed \cap {"SUCCESS", "FAILED", "ERROR_CHECKING"} = {}
    => /\ client.report \notin {"Job failed.", "Job completed successfully."}
       /\ client.pc = "done" => client.report = "did not reach a final state"

C8_Witness ==
    /\ client.pc = "done"
    /\ client.queries = 50
    /\ client.observed = {"PENDING", "RUNNING", None}
    /\ client.report = "did not reach a final state"

\* C9: the client issues at most 50 status queries, and has left the loop
\* once it has issued 50.
C9_BoundedPolling ==
    /\ client.queries <= 50
    /\ client.queries = 50 => client.pc \in {"done", "raised"}
    /\ client.pc = "polling" => client.queries < 50

C9_Witness ==
    /\ client.queries = 50
    /\ client.pc = "done"
    /\ client.final_result = NoneDict

\* C10: a status query answers 200 with the stored record when the read
\* succeeds and the record exists, 404 when the read succeeds and there is
\* none, and 500 exactly when the read fails.
C10_QueryStatusCodes ==
    [][lastQuery' # lastQuery =>
          LET q == lastQuery'
              code == q.response.statusCode
              exists == q.jobId \in DOMAIN store
          IN  /\ code \in {200, 404, 500}
              /\ code = 200 <=> (q.read = "ok" /\ exists)
              /\ code = 200 => q.response.body = store[q.jobId]
              /\ code = 404 <=> (q.read = "ok" /\ ~exists)
              /\ code = 500 <=> q.read # "ok"]_vars

C10_Witness ==
    /\ lastQuery # EmptyDict
    /\ lastQuery.response.statusCode = 200
    /\ lastQuery.jobId \in DOMAIN store
    /\ store[lastQuery.jobId].status = "SUCCESS"
    /\ lastQuery.response.body.contentLength = 7

\* C11: once the handler has accepted a valid submission (jobId and url
\* given), a status query for its job_id whose read succeeds eventually
\* answers 200 with a stored record instead of 404 (unless the Lambda service
\* stopped the invocation at its timeout).
C11_RecordEventuallyQueryable ==
    \A j \in QueryIds :
        (/\ run[1].pc = "session"
         /\ ScrapeRequestModel(run[1].event)
         /\ run[1].job_id = j)
        ~> (\/ GetterHandler(store, j, "ok").statusCode = 200
            \/ run[1].pc = "timed_out")

\* C12: a run of scrape_page that acquired a remote session and has returned
\* or raised has released it: the connection to the session was closed.
C12_SessionReleased ==
    \A r \in Runs :
        (run[r].pc \in {"returned", "crashed"} /\ run[r].session_id # None)
        => run[r].browser = "closed"

\* C13: the record of a job is only ever written by one invocation: a write
\* to an existing record comes from the invocation that wrote it before
\* (the first component of lastUpdatedAt is the invocation that read the clock).
C13_SingleWriterPerJob ==
    [][\A j \in DOMAIN store :
          store'[j].lastUpdatedAt[1] = store[j].lastUpdatedAt[1]]_vars

\* C14: an invocation whose submission fails validation (no body, a body
\* that is not JSON or not an object, jobId or url missing) writes nothing to
\* the store and starts no job.
C14_InvalidSubmissionRejected ==
    [][\A r \in Runs :
          (/\ run[r].pc = "idle"
           /\ run'[r].pc \notin {"idle", "import_error"}
           /\ ~ScrapeRequestModel(run'[r].event))
          => (store' = store /\ run'[r].pc \in {"returned", "crashed"})]_vars

\* C15: a stored record of status SUCCESS has no errorMessage, a stored
\* record of status FAILED does not have both pageTitle and contentLength,
\* and pageTitle and contentLength are only in records of status SUCCESS.
C15_ResultAndErrorExclusive ==
    \A j \in DOMAIN store :
        LET item == store[j]
        IN  /\ item.status = "SUCCESS" => "errorMessage" \notin DOMAIN item
            /\ item.status = "FAILED" =>
                   ~({"pageTitle", "contentLength"} \subseteq DOMAIN item)
            /\ DOMAIN item \cap {"pageTitle", "contentLength"} # {} =>
                   item.status = "SUCCESS"

C15_Witness ==
    /\ \E j \in DOMAIN store :
          /\ store[j].status = "SUCCESS"
          /\ {"pageTitle", "contentLength"} \subseteq DOMAIN store[j]
          /\ store[j].lastUpdatedAt = Now(2, 3)
    /\ \E j \in DOMAIN store :
          /\ "errorMessage" \in DOMAIN store[j]
          /\ store[j].lastUpdatedAt = Now(1, 3)

\* C16: every record a run writes carries sessionId exactly when that run
\* has acquired its session: the PENDING record does not, the RUNNING record
\* does, and the terminal record does iff create_browserbase_session had
\* succeeded, with the id of that session.
C16_SessionIdIffAcquired ==
    [][\A r \in Runs :
          LET j == run'[r].job_id
          IN  (/\ run'[r].pc # run[r].pc
               /\ run'[r].pc \in {"session", "connect", "cleanup"}
               /\ store' # store)
              => /\ j \in DOMAIN store'
                 /\ ("sessionId" \in DOMAIN store'[j]) <=> (run'[r].session_id # None)
                 /\ run'[r].session_id # None =>
                        store'[j].sessionId = run'[r].session_id
                 /\ store'[j].status = "PENDING" => "sessionId" \notin DOMAIN store'[j]
                 /\ store'[j].status = "RUNNING" => "sessionId" \in DOMAIN store'[j]]_vars

C16_Witness ==
    /\ \E j \in DOMAIN store :
          /\ "errorMessage" \in DOMAIN store[j]
          /\ "sessionId" \in DOMAIN store[j]
          /\ store[j].sessionId = "sess1"
    /\ \E j \in DOMAIN store :
          /\ "errorMessage" \in DOMAIN store[j]
          /\ "sessionId" \notin DOMAIN store[j]
          /\ store[j].lastUpdatedAt = Now(2, 3)

\* C17: the cleanup of a run always ends in the normal return of scrape_page
\* and of the handler, with the driver stopped if it was started, and leaves
\* the store as the terminal write left it.
C17_CleanupNeverPropagates ==
    [][\A r \in Runs :
          (run[r].pc = "cleanup" /\ run'[r].pc # "cleanup")
          => /\ run'[r].pc = "returned"
             /\ run'[r].result = [jobId |-> run[r].job_id,
                                  finalStatus |-> run[r].final_status]
             /\ run'[r].playwright # "started"
             /\ store' = store]_vars

\* s starts with p
HasPrefix(s, p) == Len(s) >= Len(p) /\ SubSeq(s, 1, Len(p)) = p

\* C18: the error message of a run names the category of what was raised: a
\* provider error, a timeout (of the connect or of the navigation), or, for
\* anything else, an unexpected error.
C18_ErrorCategory ==
    \A r \in Runs :
        run[r].exc # None =>
            HasPrefix(run[r].error_info,
                      CASE run[r].exc = "BrowserbaseError" -> "Browserbase API error: "
                        [] run[r].exc \in {"TimeoutError", "PlaywrightTimeoutError"} ->
                              "Playwright timeout error: "
                        [] OTHER -> "An unexpected error occurred: ")

\* C19: every run of scrape_page eventually issues its terminal write.
C19_TerminalWriteIssued ==
    (run[1].pc = "session") ~> (run[1].pc \in {"cleanup", "returned", "crashed"})

\* C20: the handler's 'accepted' acknowledgment does not wait for the job:
\* once the handler has taken a submission, the acknowledgment with the
\* jobId is eventually returned, whether or not the job comes to an end.
C20_AckDoesNotWait ==
    \A j \in QueryIds :
        (run[1].pc = "session" /\ run[1].job_id = j)
        ~> (run[1].ret = [status |-> "accepted", jobId |-> j])

\* C21: requestedUrl and receivedAt of a stored record never change: every
\* write to the record of a job_id stores the values of the first write.
C21_RequestFieldsImmutable ==
    [][\A j \in DOMAIN store :
          /\ store'[j].requestedUrl = store[j].requestedUrl
          /\ store'[j].receivedAt = store[j].receivedAt]_vars

\* C22: a status query leaves the store as it is, whatever it answers.
C22_QueryLeavesStore ==
    [][lastQuery' # lastQuery => store' = store]_vars

C22_Witness ==
    /\ lastQuery # EmptyDict
    /\ lastQuery.response.statusCode = 500
    /\ lastQuery.jobId \in DOMAIN store
    /\ store[lastQuery.jobId].status = "RUNNING"

\* C23: the writes a run of scrape_page has issued are PENDING, then RUNNING
\* if and only if the session was created, then, once the finally clause has
\* made it, one terminal write; and a run that got past its PENDING write
\* returns or raises only after that terminal write.
C23_WriteOrder ==
    [][\A r \in Runs :
          LET l == run'[r]
              before == IF l.session_id = None \/ l.pc = "session"
                        THEN <<"PENDING">> ELSE <<"PENDING", "RUNNING">>
          IN  /\ l.pc \in {"session", "connect", "navigate", "final"} =>
                    l.writes = before
              /\ l.pc \in {"connect", "navigate"} => l.session_id # None
              /\ l.pc = "cleanup" =>
                    /\ l.writes = Append(before, l.final_status)
                    /\ l.final_status \notin {"PENDING", "RUNNING"}
              /\ (run[r].pc \in {"session", "connect", "navigate", "final", "cleanup"}
                     /\ l.pc \in {"returned", "crashed"}) =>
                    (run[r].pc = "cleanup" /\ Len(run[r].writes) \in {2, 3})]_vars

C23_Witness ==
    /\ run[1].pc = "cleanup"
    /\ run[1].session_id = None
    /\ run[1].writes = <<"PENDING", "failed">>

\* C24: no cleanup step is taken before the terminal write: until then no
\* connection is closed and no driver stopped, and when a run leaves its
\* cleanup, crashing or not, its last write is the terminal one and, if the
\* table took it, the store holds that record.
C24_TerminalWriteBeforeCleanup ==
    [][\A r \in Runs :
          /\ run'[r].pc \in {"session", "connect", "navigate", "final"} =>
                (run'[r].browser # "closed" /\ run'[r].playwright # "stopped")
          /\ (run[r].pc = "cleanup" /\ run'[r].pc # "cleanup") =>
                LET l == run[r]
                    j == l.job_id
                    last == l.writes[Len(l.writes)]
                IN  /\ Len(l.writes) >= 2
                    /\ last \notin {"PENDING", "RUNNING"}
                    /\ l.put_ok =>
                          /\ j \in DOMAIN store'
                          /\ store'[j].status = last
                          /\ store'[j].lastUpdatedAt = Now(r, 3)]_vars

C24_Witness ==
    /\ run[1].pc = "crashed"
    /\ run[1].browser = "connected"
    /\ \E j \in DOMAIN store :
          store[j].lastUpdatedAt = Now(1, 3) /\ store[j].status = "SUCCESS"

\* What get_job_status is to make of a response: the record on 200, None on
\* 404 and on a timeout, an ERROR_CHECKING result on any other HTTP error, on
\* a network error and on a body that is not JSON
StatusMapping(resp, result) ==
    LET checking == result # NoneDict /\ "status" \in DOMAIN result
                    /\ result.status = "ERROR_CHECKING"
    IN  /\ (resp.kind = "http" /\ resp.code = 200 /\ resp.json) =>
              result = resp.body
        /\ (resp.kind = "timeout" \/ (resp.kind = "http" /\ resp.code = 404)) =>
              result = NoneDict
        /\ (\/ resp.kind = "network"
            \/ resp.kind = "http" /\ resp.code >= 400 /\ resp.code # 404
            \/ resp.kind = "http" /\ resp.code = 200 /\ ~resp.json) =>
              checking

\* C25: get_job_status gives the record on 200, None on 404 and on a
\* timeout, and an ERROR_CHECKING result on any other HTTP error, on a
\* network error and on a body that is not JSON, for the responses the query
\* service sends the client and for every other one; so a 500 of the query
\* service ends the polling at that attempt and a 404 does not.
C25_StoreErrorIsErrorChecking ==
    [][ClientQueried =>
          LET resp == client'.response
              result == client'.result
          IN  /\ StatusMapping(resp, result)
              /\ \A any \in AnyResponses : StatusMapping(any, get_job_status(any))
              /\ (resp.kind = "http" /\ resp.code = 500) =>
                    /\ client'.pc = "done"
                    /\ client'.final_result = result
                    /\ result.status = "ERROR_CHECKING"
              /\ (resp.kind = "http" /\ resp.code = 404 /\ client'.attempts < 50) =>
                    client'.pc = "polling"]_vars

C25_Witness ==
    /\ client.pc = "done"
    /\ client.response = HttpResponse(500,
           [error |-> "Failed to retrieve job status due to database error"])
    /\ client.final_result # NoneDict
    /\ client.final_result.status = "ERROR_CHECKING"
    /\ None \in client.observed
    /\ client.attempts > 1
    /\ run[1].pc = "returned"

\* C26: a failed put_item leaves the store as it was and the run goes on to
\* the phase that follows the write: the session after PENDING, the connect
\* after RUNNING, the cleanup after the terminal write; and the finalStatus
\* scrape_page returns is the one it computed, whatever the writes did.
C26_WriteFailureSwallowed ==
    [][\A r \in Runs :
          /\ (Len(run'[r].writes) > Len(run[r].writes) /\ ~run'[r].put_ok) =>
                /\ store' = store
                /\ run'[r].pc = CASE Len(run[r].writes) = 0 -> "session"
                                   [] run[r].pc = "session" -> "connect"
                                   [] OTHER -> "cleanup"
                /\ run[r].pc # "idle" => run'[r].final_status = run[r].final_status
          /\ (run[r].pc = "cleanup" /\ run'[r].pc = "returned") =>
                run'[r].result.finalStatus = run[r].final_status]_vars

C26_Witness ==
    /\ run[1].pc = "returned"
    /\ run[1].result # EmptyDict
    /\ run[1].result.finalStatus = "SUCCESS"
    /\ store # EmptyDict
    /\ \A j \in DOMAIN store : store[j].status = "RUNNING"

====
